---- MODULE Spec2Model ----
(***************************************************************************)
(* Submission intake, judging dispatch, access resolution, share toggle    *)
(* and rejudge of src/submission/views.py, as a state machine.             *)
(*                                                                         *)
(* Request handlers that touch shared state more than once (create,        *)
(* rejudge, share toggle) are split at their external calls: database      *)
(* read/write, judge.delay(), redis incr().  Several request-handling      *)
(* workers run them concurrently.  Read-only handlers are one step.        *)
(***************************************************************************)
EXTENDS Integers, Sequences, FiniteSets, TLC

(* ------------------------------ bounds -------------------------------- *)
\* at most this many Submission rows are created in one behaviour
MaxSubs == 1
\* at most this many dispatches (_judge calls) are started in one behaviour
MaxDispatch == 2
\* at most this many changes of the problem/contest catalog in one behaviour
MaxEnv == 1
\* at most this many Submission rows in a behaviour of concurrent creates
MaxRows == 2
\* the clock of the Submission store runs from 1 to this
MaxClock == 2

(* ------------------------- fixtures and constants --------------------- *)
\* request-handling workers (threads) serving requests concurrently
Workers == {1, 2}

\* request.user of an unauthenticated request (AnonymousUser)
Anonymous == 0
\* account.models.User rows: 1 submits code, 2 created the contest, 3 is the
\* super administrator, 4 is any other user
Users == {1, 2, 3, 4}
\* the users who submit code in the model
Submitters == {1}
SUPER_ADMIN == "SUPER_ADMIN"
REGULAR_USER == "REGULAR_USER"
AdminType(user) == IF user = 3 THEN SUPER_ADMIN ELSE REGULAR_USER

\* a null contest_id (falsy in `if submission.contest_id`)
NULL == 0
\* the verdict code meaning "accepted" (submission.result == 0)
ACCEPTED == 0
\* the initial, pending verdict code of a new row (model default)
WAITING == 8
\* some terminal verdict other than accepted
WRONG_ANSWER == 6

ProblemIds == {1}
ContestIds == {1}
\* an id no row of the table queried has
AbsentId == 9
TimeLimits == {1000, 2000}

NoProblem == [exists |-> FALSE, visible |-> FALSE, contest |-> NULL,
              time_limit |-> 0, memory_limit |-> 0, test_case_id |-> "none"]
NoContest == [exists |-> FALSE, created_by |-> Anonymous]
NoRow == [user_id |-> Anonymous, problem_id |-> 0, contest_id |-> NULL,
          language |-> 0, code |-> "none", result |-> WAITING, shared |-> FALSE,
          info |-> "none", accepted_answer_time |-> 0, create_time |-> 0]

VARIABLES
  submissions,      \* Submission table: sequence of rows, id = position
  problems,         \* Problem table
  contestProblems,  \* ContestProblem table
  contests,         \* Contest table
  counter,          \* redis key judge_queue_length
  jobs,             \* jobs handed to judge.delay, in handoff order
  started,          \* number of _judge calls started so far
  changes,          \* number of catalog changes so far
  pc,               \* per worker: where its current request stands
  local,            \* per worker: the local variables of its handler
  clock,            \* the time `now` of the Submission store
  rowLimit,         \* at most this many Submission rows in this behaviour
  response          \* the response a handler has returned, until it is delivered

vars == <<submissions, problems, contestProblems, contests, counter, jobs,
          started, changes, pc, local, clock, rowLimit, response>>

(* ----------------------------- responses ------------------------------ *)
\* a request: the operation, request.user, the id it names (a submission id,
\* or the problem id of a create), and whether its payload passes the serializer
Request(op, user, arg, valid) == [op |-> op, user |-> user, arg |-> arg, valid |-> valid]
NoRequest == Request("none", Anonymous, NULL, FALSE)

NoData == [none |-> TRUE]
Respond(req, kind, msg, data) ==
  [op |-> req.op, user |-> req.user, arg |-> req.arg, valid |-> req.valid,
   kind |-> kind, msg |-> msg, data |-> data]
NoResponse == Respond(NoRequest, "none", "none", NoData)

\* utils.shortcuts helpers as the handlers call them
success_response(req, data) == Respond(req, "success", "none", data)
error_response(req, msg) == Respond(req, "error_response", msg, NoData)
error_page(req, msg) == Respond(req, "error_page", msg, NoData)
serializer_invalid_response(req) == Respond(req, "serializer_invalid", "none", NoData)
render(req, data) == Respond(req, "render", "none", data)
\* an exception no handler catches: the request ends in a server fault
Unhandled(req, exc) == Respond(req, "fault", exc, NoData)
\* a decorator turned the request away before the handler ran
Rejected(req) == Respond(req, "rejected_by_decorator", "none", NoData)

\* the messages of the source
MsgProblemNotExist == "problem does not exist"        \* u"题目不存在"
MsgSubmissionNotExist == "submission does not exist"  \* u"提交不存在"
MsgJudgeFailed == "submitting judge task failed"      \* u"提交判题任务失败"
MsgParamError == "parameter error"                    \* u"参数错误"

(* ------------------------------- Init --------------------------------- *)
IdleLocal == [req |-> NoRequest, submission_id |-> 0, submission |-> NoRow,
              can_share |-> FALSE, problem |-> NoProblem]

\* the state before any request, with room for `limit` Submission rows
Start(limit) ==
  /\ submissions = << >>
  /\ problems = [p \in ProblemIds |->
                   [exists |-> TRUE, visible |-> TRUE, contest |-> NULL,
                    time_limit |-> 1000, memory_limit |-> 256,
                    test_case_id |-> "tc_problem"]]
  /\ contestProblems = [p \in ProblemIds |->
                   [exists |-> TRUE, visible |-> TRUE, contest |-> 1,
                    time_limit |-> 3000, memory_limit |-> 512,
                    test_case_id |-> "tc_contest"]]
  /\ contests = [c \in ContestIds |-> [exists |-> TRUE, created_by |-> 2]]
  /\ counter = 0
  /\ jobs = << >>
  /\ started = 0
  /\ changes = 0
  /\ pc = [w \in Workers |-> "idle"]
  /\ local = [w \in Workers |-> IdleLocal]
  /\ clock = 1
  /\ rowLimit = limit
  /\ response = NoResponse

Init == Start(MaxSubs)

\* no response is waiting to be delivered
Quiet == response = NoResponse

\* a request is taken by the first idle worker (the workers are interchangeable)
Idle(w) == Quiet /\ pc[w] = "idle" /\ \A v \in Workers : pc[v] = "idle" => w <= v

(* ------------------------------ lookups ------------------------------- *)
\* Submission.objects.get(id=...): the row, or DoesNotExist
SubmissionExists(sid) == sid \in DOMAIN submissions

\* Problem.objects.get(id=...): the row, or DoesNotExist
ProblemGet(pid) == IF pid \in DOMAIN problems /\ problems[pid].exists
                   THEN problems[pid] ELSE NoProblem

\* ContestProblem.objects.get(contest=contest, id=...)
ContestProblemGet(cid, pid) ==
  IF pid \in DOMAIN contestProblems /\ contestProblems[pid].exists
     /\ contestProblems[pid].contest = cid
  THEN contestProblems[pid] ELSE NoProblem

\* Contest.objects.get(id=...)
ContestGet(cid) == IF cid \in DOMAIN contests /\ contests[cid].exists
                   THEN contests[cid] ELSE NoContest


(* --------------------------- Access Resolver -------------------------- *)
Granted(row, can_share) == [status |-> "ok", submission |-> row, can_share |-> can_share]
Raised(exc) == [status |-> exc, submission |-> NoRow, can_share |-> FALSE]

\* _get_submission(submission_id, user)
GetSubmission(submission_id, user) ==
  IF ~SubmissionExists(submission_id) THEN Raised("Submission.DoesNotExist")
  ELSE LET submission == submissions[submission_id] IN
    \* AnonymousUser has no admin_type
    IF user = Anonymous THEN Raised("AttributeError")
    ELSE IF AdminType(user) = SUPER_ADMIN \/ submission.user_id = user
      THEN Granted(submission, TRUE)
    ELSE IF submission.contest_id # NULL /\ ~ContestGet(submission.contest_id).exists
      THEN Raised("Contest.DoesNotExist")
    ELSE IF submission.contest_id # NULL
            /\ ContestGet(submission.contest_id).created_by = user
      THEN Granted(submission, TRUE)
    ELSE IF submission.shared THEN Granted(submission, FALSE)
    ELSE Raised("Submission.DoesNotExist")

(* ------------------------------ decorators ---------------------------- *)
\* @login_required: the handler runs for authenticated users only
LoginRequired(user) == user \in Users
\* @super_admin_required: the handler runs for super administrators only
SuperAdminRequired(user) == user \in Users /\ AdminType(user) = SUPER_ADMIN
\* @check_user_contest_permission: the contest exists and admits the user
CheckUserContestPermission(user, contest_id) ==
  user \in Users /\ ContestGet(contest_id).exists

\* a step that answers at once and changes nothing else
Answer(r) ==
  /\ response' = r
  /\ UNCHANGED <<submissions, problems, contestProblems, contests, counter, jobs,
                 started, changes, clock, rowLimit, pc, local>>


(* ------------------------------- Intake ------------------------------- *)
\* Submission.objects.create(user_id, language, code, problem_id[, contest_id]):
\* the other columns take the model's defaults
NewRow(user, language, code, problem_id, contest_id) ==
  [user_id |-> user, problem_id |-> problem_id, contest_id |-> contest_id,
   language |-> language, code |-> code, result |-> WAITING, shared |-> FALSE,
   info |-> "none", accepted_answer_time |-> 0, create_time |-> clock]

\* a plausible slip: the id is the count of rows taken before the insert
CreatedIdBeforeInsert == Len(submissions)

\* submission.id of the row Submission.objects.create has just inserted
CreatedId == Len(submissions) + 1

\* the handler keeps submission.id and `problem` and goes on to _judge
EnterJudge(w, req, sid, problem) ==
  /\ pc' = [pc EXCEPT ![w] = "judge_delay"]
  /\ local' = [local EXCEPT ![w] =
                 [req |-> req, submission_id |-> sid, submission |-> NoRow,
                  can_share |-> FALSE, problem |-> problem]]
  /\ started' = started + 1
  /\ response' = NoResponse

\* a plausible slip: the problem is looked up before the payload is validated
IntakeCheckLookupFirst(valid, problem) ==
  IF ~problem.exists THEN "no_problem" ELSE IF ~valid THEN "invalid" ELSE "ok"

\* the order of the checks of a create: serializer.is_valid() first, then the
\* problem lookup with its DoesNotExist
IntakeCheck(valid, problem) ==
  IF ~valid THEN "invalid" ELSE IF ~problem.exists THEN "no_problem" ELSE "ok"

\* SubmissionAPIView.post up to and including Submission.objects.create
CreateSubmission(w, user, valid, problem_id) ==
  LET req == Request("create", user, problem_id, valid)
      check == IntakeCheck(valid, ProblemGet(problem_id)) IN
  /\ Idle(w)
  /\ IF ~LoginRequired(user) THEN Answer(Rejected(req))
     ELSE IF check = "invalid" THEN Answer(serializer_invalid_response(req))
     ELSE IF check = "no_problem"
       THEN Answer(error_response(req, MsgProblemNotExist))
     ELSE
       /\ Len(submissions) < rowLimit /\ started < MaxDispatch
       /\ submissions' = Append(submissions, NewRow(user, 1, "code", problem_id, NULL))
       /\ EnterJudge(w, req, CreatedId, ProblemGet(problem_id))
       /\ UNCHANGED <<problems, contestProblems, contests, counter, jobs, changes, clock, rowLimit>>

\* ContestSubmissionAPIView.post up to and including Submission.objects.create
CreateContestSubmission(w, user, valid, contest_id, problem_id) ==
  LET req == Request("contest_create", user, problem_id, valid)
      check == IntakeCheck(valid, ContestProblemGet(contest_id, problem_id)) IN
  /\ Idle(w)
  /\ IF ~CheckUserContestPermission(user, contest_id) THEN Answer(Rejected(req))
     ELSE IF check = "invalid" THEN Answer(serializer_invalid_response(req))
     ELSE IF check = "no_problem"
       THEN Answer(error_response(req, MsgProblemNotExist))
     ELSE
       /\ Len(submissions) < rowLimit /\ started < MaxDispatch
       /\ submissions' = Append(submissions,
                                NewRow(user, 1, "code", problem_id, contest_id))
       /\ EnterJudge(w, req, CreatedId,
                     ContestProblemGet(contest_id, problem_id))
       /\ UNCHANGED <<problems, contestProblems, contests, counter, jobs, changes, clock, rowLimit>>

(* --------------------------- Job Dispatcher --------------------------- *)
\* a plausible slip: time_limit and memory_limit passed in the wrong order
JobSwapped(submission_id, time_limit, memory_limit, test_case_id) ==
  [submission_id |-> submission_id, time_limit |-> memory_limit,
   memory_limit |-> time_limit, test_case_id |-> test_case_id]

\* the arguments of judge.delay
Job(submission_id, time_limit, memory_limit, test_case_id) ==
  [submission_id |-> submission_id, time_limit |-> time_limit,
   memory_limit |-> memory_limit, test_case_id |-> test_case_id]

\* the handler returns; its worker is free again
Finish(w, r) ==
  /\ pc' = [pc EXCEPT ![w] = "idle"]
  /\ local' = [local EXCEPT ![w] = IdleLocal]
  /\ response' = r

\* a plausible slip: the failure handler deletes the row it could not queue
DispatchFailedRollback(w) ==
  /\ Finish(w, error_response(local[w].req, MsgJudgeFailed))
  /\ submissions' = SubSeq(submissions, 1, local[w].submission_id - 1)
  /\ UNCHANGED <<jobs, counter>>

\* `except Exception as e: logger.error(e); return error_response(...)`
DispatchFailed(w) ==
  /\ Finish(w, error_response(local[w].req, MsgJudgeFailed))
  /\ UNCHANGED <<submissions, jobs, counter>>

\* what the handler returns after _judge returned
JudgeDone(w) ==
  IF local[w].req.op = "rejudge"
  THEN success_response(local[w].req, [text |-> "task submitted"])
  ELSE success_response(local[w].req, [submission_id |-> local[w].submission_id])

\* _judge, first statement: judge.delay(...) hands the job off, or raises
JudgeDelay(w, ok) ==
  /\ Quiet /\ pc[w] = "judge_delay"
  /\ IF ok THEN
       /\ jobs' = Append(jobs, Job(local[w].submission_id, local[w].problem.time_limit,
                                   local[w].problem.memory_limit,
                                   local[w].problem.test_case_id))
       /\ pc' = [pc EXCEPT ![w] = "redis_incr"]
       /\ UNCHANGED <<submissions, counter, local, response>>
     ELSE DispatchFailed(w)
  /\ UNCHANGED <<problems, contestProblems, contests, started, changes, clock, rowLimit>>

\* _judge, second statement: get_cache_redis().incr("judge_queue_length"),
\* atomic in the counter store, or raises (store unreachable)
RedisIncr(w, ok) ==
  /\ Quiet /\ pc[w] = "redis_incr"
  /\ IF ok THEN
       /\ counter' = counter + 1
       /\ Finish(w, JudgeDone(w))
       /\ UNCHANGED <<submissions, jobs>>
     ELSE DispatchFailed(w)
  /\ UNCHANGED <<problems, contestProblems, contests, started, changes, clock, rowLimit>>

(* ------------------------------- Rejudge ------------------------------ *)
\* a plausible slip: the lookup without the contest_id__isnull filter
AnySubmissionExists(submission_id) == SubmissionExists(submission_id)

\* Submission.objects.get(id=submission_id, contest_id__isnull=True)
StandaloneExists(submission_id) ==
  SubmissionExists(submission_id) /\ submissions[submission_id].contest_id = NULL

\* a plausible slip: the limits the problem was first set up with, not the
\* current ones
RejudgeProblemStale(submission) ==
  [exists |-> TRUE, visible |-> TRUE, contest |-> NULL, time_limit |-> 1000,
   memory_limit |-> 256, test_case_id |-> "tc_problem"]

\* Problem.objects.get(id=submission.problem_id), read when the rejudge runs
RejudgeProblem(submission) == ProblemGet(submission.problem_id)

\* SubmissionRejudgeAdminAPIView.post up to the call of _judge
Rejudge(w, user, valid, submission_id) ==
  LET req == Request("rejudge", user, submission_id, valid) IN
  /\ Idle(w)
  /\ IF ~SuperAdminRequired(user) THEN Answer(Rejected(req))
     ELSE IF ~valid THEN Answer(serializer_invalid_response(req))
     ELSE IF ~StandaloneExists(submission_id)
       THEN Answer(error_response(req, MsgSubmissionNotExist))
     ELSE IF ~RejudgeProblem(submissions[submission_id]).exists
       THEN Answer(error_response(req, MsgProblemNotExist))
     ELSE
       /\ started < MaxDispatch
       /\ EnterJudge(w, req, submission_id, RejudgeProblem(submissions[submission_id]))
       /\ UNCHANGED <<submissions, problems, contestProblems, contests, counter,
                      jobs, changes, clock, rowLimit>>

(* ----------------------------- Share Toggle --------------------------- *)
\* a plausible slip: the can_share test left out
MayToggleAlways(result) == TRUE

\* `if not result["can_share"]`: only a can_share result goes on to the flip
MayToggle(result) == result.can_share

\* SubmissionShareAPIView.post up to the flip: validation and _get_submission
ShareResolve(w, user, valid, submission_id) ==
  LET req == Request("share", user, submission_id, valid)
      result == GetSubmission(submission_id, user) IN
  /\ Idle(w)
  /\ IF ~valid THEN Answer(serializer_invalid_response(req))
     ELSE IF result.status = "Submission.DoesNotExist"
       THEN Answer(error_response(req, MsgSubmissionNotExist))
     ELSE IF result.status # "ok" THEN Answer(Unhandled(req, result.status))
     ELSE IF ~MayToggle(result) THEN Answer(error_page(req, MsgSubmissionNotExist))
     ELSE
       /\ pc' = [pc EXCEPT ![w] = "share_save"]
       /\ local' = [local EXCEPT ![w] =
                      [req |-> req, submission_id |-> submission_id,
                       submission |-> result.submission,
                       can_share |-> result.can_share, problem |-> NoProblem]]
       /\ UNCHANGED <<submissions, problems, contestProblems, contests, counter,
                      jobs, started, changes, clock, rowLimit, response>>

\* a plausible slip: the toggle sets the flag instead of inverting it
ToggleSet(shared) == TRUE

\* `not submission.shared`
Toggle(shared) == ~shared

\* a plausible slip: the row saved is detached from its contest
FlippedDetached(submission) ==
  [submission EXCEPT !.shared = Toggle(submission.shared), !.contest_id = NULL]

\* the loaded object after `submission.shared = not submission.shared`
Flipped(submission) == [submission EXCEPT !.shared = Toggle(submission.shared)]

\* submission.shared = not submission.shared; submission.save(): the loaded
\* object is written back, every column of it
ShareSave(w) ==
  /\ Quiet /\ pc[w] = "share_save"
  /\ LET flipped == Flipped(local[w].submission) IN
       /\ submissions' = [submissions EXCEPT ![local[w].submission_id] = flipped]
       /\ Finish(w, success_response(local[w].req, [shared |-> flipped.shared]))
  /\ UNCHANGED <<problems, contestProblems, contests, counter, jobs, started, changes, clock, rowLimit>>


(* -------------------------------- Reads ------------------------------- *)
\* a plausible slip: the lookup without the user_id filter
OwnedByAnyone(submission_id, user) == SubmissionExists(submission_id)

\* Submission.objects.get(id=submission_id, user_id=request.user.id) finds a row
OwnedBy(submission_id, user) ==
  SubmissionExists(submission_id) /\ submissions[submission_id].user_id = user

\* SubmissionAPIView.get; submission_id = NULL stands for a missing parameter
GetStatus(w, user, submission_id) ==
  LET req == Request("status", user, submission_id, TRUE) IN
  /\ Idle(w)
  /\ IF ~LoginRequired(user) THEN Answer(Rejected(req))
     ELSE IF submission_id = NULL THEN Answer(error_response(req, MsgParamError))
     ELSE IF ~OwnedBy(submission_id, user)
       THEN Answer(error_response(req, MsgSubmissionNotExist))
     ELSE IF submissions[submission_id].result = ACCEPTED
       THEN Answer(success_response(req,
              [result |-> submissions[submission_id].result,
               accepted_answer_time |-> submissions[submission_id].accepted_answer_time]))
     ELSE Answer(success_response(req, [result |-> submissions[submission_id].result]))

\* json.loads(info): the decoded value, or the raw text when decoding raises
LoadInfo(info) ==
  IF info = "none" THEN "None"
  ELSE IF info = "{}" THEN "decoded"
  ELSE info

\* a plausible slip: the lookup without the visible=True filter
AnyProblem(submission) ==
  IF submission.contest_id # NULL
  THEN (IF submission.problem_id \in DOMAIN contestProblems
        THEN contestProblems[submission.problem_id] ELSE NoProblem)
  ELSE ProblemGet(submission.problem_id)

\* the problem row the detail page needs: ContestProblem or Problem, visible=True
VisibleProblem(submission) ==
  LET p == IF submission.contest_id # NULL
           THEN (IF submission.problem_id \in DOMAIN contestProblems
                 THEN contestProblems[submission.problem_id] ELSE NoProblem)
           ELSE ProblemGet(submission.problem_id)
  IN IF p.exists /\ p.visible THEN p ELSE NoProblem

\* my_submission
MySubmission(w, user, submission_id) ==
  LET req == Request("detail", user, submission_id, TRUE)
      result == GetSubmission(submission_id, user) IN
  /\ Idle(w)
  /\ IF ~LoginRequired(user) THEN Answer(Rejected(req))
     ELSE IF result.status = "Submission.DoesNotExist"
       THEN Answer(error_page(req, MsgSubmissionNotExist))
     ELSE IF result.status # "ok" THEN Answer(Unhandled(req, result.status))
     ELSE IF ~VisibleProblem(result.submission).exists
       THEN Answer(error_page(req, MsgSubmissionNotExist))
     ELSE Answer(render(req, [submission |-> result.submission,
                              problem |-> VisibleProblem(result.submission),
                              info |-> LoadInfo(result.submission.info),
                              user |-> result.submission.user_id,
                              can_share |-> result.can_share]))

\* `return response`: the response leaves the server
Deliver ==
  /\ ~Quiet
  /\ response' = NoResponse
  /\ UNCHANGED <<submissions, problems, contestProblems, contests, counter, jobs,
                 started, changes, clock, rowLimit, pc, local>>

(* ----------------------- external collaborators ----------------------- *)
\* one change of the catalog
CatalogChange ==
  /\ Quiet /\ changes < MaxEnv
  /\ changes' = changes + 1
  /\ UNCHANGED <<submissions, counter, jobs, started, pc, local, clock, rowLimit,
                 response>>

\* the catalog removes a problem
RemoveProblem(p) ==
  /\ CatalogChange
  /\ problems[p].exists
  /\ problems' = [problems EXCEPT ![p] = NoProblem]
  /\ UNCHANGED <<contestProblems, contests>>

\* the catalog hides a problem
HideProblem(p) ==
  /\ CatalogChange
  /\ problems[p].exists /\ problems[p].visible
  /\ problems' = [problems EXCEPT ![p].visible = FALSE]
  /\ UNCHANGED <<contestProblems, contests>>

\* the catalog changes a problem's time limit
ChangeLimits(p, t) ==
  /\ CatalogChange
  /\ problems[p].exists /\ problems[p].time_limit # t
  /\ problems' = [problems EXCEPT ![p].time_limit = t]
  /\ UNCHANGED <<contestProblems, contests>>

\* the catalog hides a contest problem
HideContestProblem(p) ==
  /\ CatalogChange
  /\ contestProblems[p].exists /\ contestProblems[p].visible
  /\ contestProblems' = [contestProblems EXCEPT ![p].visible = FALSE]
  /\ UNCHANGED <<problems, contests>>

\* a contest row is deleted; Submission.contest_id is a plain id and stays
RemoveContest(c) ==
  /\ CatalogChange
  /\ contests[c].exists
  /\ contests' = [contests EXCEPT ![c] = NoContest]
  /\ UNCHANGED <<problems, contestProblems>>

\* verdicts the judging worker reports
Verdicts == {[result |-> ACCEPTED, info |-> "{}", accepted_answer_time |-> 5],
             [result |-> WRONG_ANSWER, info |-> "raw", accepted_answer_time |-> 0]}

\* the judging worker reports the verdict of a job it was handed
WorkerReport(submission_id, v) ==
  /\ Quiet
  /\ \E i \in DOMAIN jobs : jobs[i].submission_id = submission_id
  /\ submissions[submission_id].result # v.result
  /\ submissions' = [submissions EXCEPT
                       ![submission_id].result = v.result,
                       ![submission_id].info = v.info,
                       ![submission_id].accepted_answer_time = v.accepted_answer_time]
  /\ UNCHANGED <<problems, contestProblems, contests, counter, jobs, started, changes, clock, rowLimit,
                 pc, local, response>>

(* ------------------------------ behaviour ----------------------------- *)
Requesters == Users \cup {Anonymous}
\* users who send create requests: the submitter and an unauthenticated client
Creators == Submitters \cup {Anonymous}
SubmissionInputs == (1..MaxSubs) \cup {AbsentId}
ProblemInputs == ProblemIds \cup {AbsentId}
ContestInputs == ContestIds \cup {AbsentId}

Next ==
  \/ \E w \in Workers, u \in Creators, valid \in BOOLEAN, p \in ProblemInputs :
       CreateSubmission(w, u, valid, p)
  \/ \E w \in Workers, u \in Creators, valid \in BOOLEAN, c \in ContestInputs,
        p \in ProblemInputs :
       CreateContestSubmission(w, u, valid, c, p)
  \/ \E w \in Workers, ok \in BOOLEAN : JudgeDelay(w, ok)
  \/ \E w \in Workers, ok \in BOOLEAN : RedisIncr(w, ok)
  \/ \E w \in Workers, u \in Requesters, valid \in BOOLEAN, s \in SubmissionInputs :
       Rejudge(w, u, valid, s)
  \/ \E w \in Workers, u \in Requesters, valid \in BOOLEAN, s \in SubmissionInputs :
       ShareResolve(w, u, valid, s)
  \/ \E w \in Workers : ShareSave(w)
  \/ \E w \in Workers, u \in Requesters, s \in SubmissionInputs \cup {NULL} :
       GetStatus(w, u, s)
  \/ \E w \in Workers, u \in Requesters, s \in SubmissionInputs : MySubmission(w, u, s)
  \/ Deliver
  \/ \E p \in ProblemIds : RemoveProblem(p)
  \/ \E p \in ProblemIds : HideProblem(p)
  \/ \E p \in ProblemIds, t \in TimeLimits : ChangeLimits(p, t)
  \/ \E p \in ProblemIds : HideContestProblem(p)
  \/ \E c \in ContestIds : RemoveContest(c)
  \/ \E s \in DOMAIN submissions, v \in Verdicts : WorkerReport(s, v)

Spec == Init /\ [][Next]_vars

(* ------------------------- concurrent creates ------------------------- *)
\* time passes in the Submission store
Tick ==
  /\ Quiet /\ clock < MaxClock
  /\ clock' = clock + 1
  /\ UNCHANGED <<submissions, problems, contestProblems, contests, counter, jobs,
                 started, changes, pc, local, rowLimit, response>>

InitCreates == Start(MaxRows)

\* the users who send the concurrent creates, and an unauthenticated client
ConcurrentCreators == {1, 2, Anonymous}

\* standalone and contest creates by any requester, their dispatches, and time
NextCreates ==
  \/ \E w \in Workers, u \in ConcurrentCreators, valid \in BOOLEAN, p \in ProblemInputs :
       CreateSubmission(w, u, valid, p)
  \/ \E w \in Workers, u \in ConcurrentCreators, valid \in BOOLEAN, c \in ContestInputs,
        p \in ProblemInputs :
       CreateContestSubmission(w, u, valid, c, p)
  \/ \E w \in Workers, ok \in BOOLEAN : JudgeDelay(w, ok)
  \/ \E w \in Workers, ok \in BOOLEAN : RedisIncr(w, ok)
  \/ Deliver
  \/ Tick

SpecCreates == InitCreates /\ [][NextCreates]_vars


(* ======================= the claims of the specification ============== *)
\* the visibility tier (or failure) a _get_submission result stands for
Visibility(result) ==
  IF result.status = "ok"
  THEN (IF result.can_share THEN "OWNER_OR_ADMIN" ELSE "PUBLIC_SHARED")
  ELSE IF result.status = "Submission.DoesNotExist" THEN "NotFound"
  ELSE "Fault"

\* the error category of the specification (section 7) a response falls in
ErrorKind(r) ==
  IF r.kind \in {"success", "render"} THEN "Success"
  ELSE IF r.kind = "serializer_invalid" \/ r.msg = MsgParamError THEN "ValidationError"
  ELSE IF r.msg = MsgSubmissionNotExist THEN "NotFound"
  ELSE IF r.msg = MsgProblemNotExist THEN "NotFound(problem)"
  ELSE IF r.msg = MsgJudgeFailed THEN "DispatchError"
  ELSE IF r.kind = "rejected_by_decorator" THEN "Rejected"
  ELSE "Fault"

\* this step is a handler answering a request in one step
Answers(op) == response = NoResponse /\ response'.op = op /\ pc' = pc

IsSuperAdmin(u) == u \in Users /\ AdminType(u) = SUPER_ADMIN
IsContestCreator(sid, u) ==
  /\ submissions[sid].contest_id # NULL
  /\ ContestGet(submissions[sid].contest_id).exists
  /\ ContestGet(submissions[sid].contest_id).created_by = u
\* owner-equivalent rights on submission sid (section 4.4, rules 2 to 4)
Entitled(sid, u) ==
  IsSuperAdmin(u) \/ submissions[sid].user_id = u \/ IsContestCreator(sid, u)

\* the ordered decision of section 4.4 for an existing submission
SpecResolve(sid, u) ==
  IF Entitled(sid, u) THEN "OWNER_OR_ADMIN"
  ELSE IF submissions[sid].shared THEN "PUBLIC_SHARED"
  ELSE "NotFound"

\* C1: for every existing submission and every requester, _get_submission
\* returns OWNER_OR_ADMIN exactly for a super administrator, the owner or the
\* creator of the submission's contest, else PUBLIC_SHARED exactly when shared,
\* else fails with NotFound.
C1_ResolverIsDecisionFunction ==
  \A sid \in DOMAIN submissions, u \in Requesters :
    Visibility(GetSubmission(sid, u)) = SpecResolve(sid, u)

\* C2: a requester B without owner-equivalent rights gets NotFound for a
\* private submission from the detail read and from the share toggle, the
\* very response B gets for an id that does not exist.
C2_PrivateLooksAbsent ==
  [][ /\ (Answers("share") /\ response'.valid
           /\ (response'.arg \notin DOMAIN submissions
               \/ (~submissions[response'.arg].shared
                   /\ ~Entitled(response'.arg, response'.user))))
         => (response'.kind = "error_response" /\ response'.msg = MsgSubmissionNotExist)
      /\ (Answers("detail") /\ response'.user \in Users
           /\ (response'.arg \notin DOMAIN submissions
               \/ (~submissions[response'.arg].shared
                   /\ ~Entitled(response'.arg, response'.user))))
         => (response'.kind = "error_page" /\ response'.msg = MsgSubmissionNotExist)
    ]_vars

\* C3: a share toggle by a requester resolved as PUBLIC_SHARED fails with
\* Forbidden, an error that is not NotFound, and leaves shared unchanged.
C3_PublicToggleForbidden ==
  [][ (Answers("share") /\ response'.valid
        /\ Visibility(GetSubmission(response'.arg, response'.user)) = "PUBLIC_SHARED")
      => /\ ErrorKind(response') \notin {"Success", "NotFound"}
         /\ submissions' = submissions
    ]_vars

\* C4: shared changes only in the save of a share toggle whose requester
\* _get_submission resolved as OWNER_OR_ADMIN (can_share) when the toggle was
\* called; no other operation changes it, and a new row has shared = false.
C4_SharedChangedOnlyByEntitledToggle ==
  [][ /\ \A sid \in DOMAIN submissions :
           (sid \in DOMAIN submissions'
              /\ submissions'[sid].shared # submissions[sid].shared)
           => \E w \in Workers :
                /\ pc[w] = "share_save" /\ pc'[w] = "idle"
                /\ local[w].submission_id = sid
                /\ local[w].can_share
                /\ response'.op = "share" /\ response'.kind = "success"
      /\ \A sid \in DOMAIN submissions' \ DOMAIN submissions :
           ~submissions'[sid].shared
      /\ DOMAIN submissions \subseteq DOMAIN submissions'
    ]_vars

\* C4 witness: a toggle has just set shared on a submission
C4_Witness ==
  /\ response.op = "share" /\ response.kind = "success"
  /\ response.arg \in DOMAIN submissions
  /\ submissions[response.arg].shared

\* C5: a _judge call whose handoff succeeds raises the counter by exactly
\* one; one whose handoff raises surfaces DispatchError and leaves the counter
\* unchanged; so every successful create or rejudge raises the counter by 1.
C5_HandoffThenIncrement ==
  [][ \A w \in Workers :
        /\ (pc[w] = "redis_incr" /\ pc'[w] = "idle") => counter' = counter + 1
        /\ (pc[w] = "judge_delay" /\ pc'[w] = "idle")
             => (ErrorKind(response') = "DispatchError" /\ counter' = counter)
        /\ (pc[w] \in {"judge_delay", "redis_incr"} /\ response'.kind = "success")
             => counter' = counter + 1
    ]_vars

\* no _judge call is between its start and its return
NoDispatchInFlight == \A w \in Workers : pc[w] \notin {"judge_delay", "redis_incr"}

\* C6: under any interleaving the counter never decreases and, once all
\* dispatches in flight have completed, exceeds its initial value (0) by the
\* number of dispatches whose handoff succeeded.
C6_NoLostIncrement ==
  [][ /\ counter' >= counter
      /\ NoDispatchInFlight' => counter' = Len(jobs')
    ]_vars


\* the operations that create a Submission
Creates == {"create", "contest_create"}
\* a job for submission sid has been handed to the execution facility
Queued(sid) == \E i \in DOMAIN jobs : jobs[i].submission_id = sid

ProblemOf(row) ==
  IF row.contest_id # NULL THEN contestProblems[row.problem_id]
  ELSE problems[row.problem_id]

\* C8: a create persists the row (pending, not shared) before any dispatch,
\* then hands off exactly one job with the new id and the problem's
\* time_limit, memory_limit and test_case_id, and returns that id; every job
\* handed off references a submission that exists.
C8_PersistThenDispatch ==
  [][ /\ \A i \in DOMAIN jobs' : jobs'[i].submission_id \in DOMAIN submissions'
      /\ Len(submissions') > Len(submissions)
           => LET sid == Len(submissions')
                  row == submissions'[sid] IN
              /\ sid = Len(submissions) + 1
              /\ row.result = WAITING /\ ~row.shared
              /\ jobs' = jobs /\ ~Queued(sid)
              /\ \E w \in Workers :
                   /\ pc[w] = "idle" /\ pc'[w] = "judge_delay"
                   /\ local'[w].submission_id = sid
                   /\ local'[w].problem = ProblemOf(row)
      /\ \A w \in Workers :
           (pc[w] = "judge_delay" /\ pc'[w] = "redis_incr")
           => jobs' = Append(jobs,
                 [submission_id |-> local[w].submission_id,
                  time_limit |-> local[w].problem.time_limit,
                  memory_limit |-> local[w].problem.memory_limit,
                  test_case_id |-> local[w].problem.test_case_id])
      /\ jobs' # jobs
           => \E w \in Workers : pc[w] = "judge_delay" /\ pc'[w] = "redis_incr"
      /\ (response'.kind = "success" /\ response'.op \in Creates)
           => \E w \in Workers :
                /\ pc[w] = "redis_incr" /\ pc'[w] = "idle"
                /\ response'.data.submission_id = local[w].submission_id
                /\ Queued(local[w].submission_id)
                /\ jobs' = jobs
    ]_vars

\* C8 witness: a create has returned the id of its row and its job is queued
C8_Witness ==
  /\ response.op \in Creates /\ response.kind = "success"
  /\ response.data.submission_id \in DOMAIN submissions
  /\ Queued(response.data.submission_id)

\* the problem a create request names is in no catalog
NamesNoProblem(r) ==
  IF r.op = "create" THEN ~ProblemGet(r.arg).exists
  ELSE \A c \in ContestIds : ~ContestProblemGet(c, r.arg).exists

\* C9: a create validates the payload first (ValidationError), then looks the
\* problem up (NotFound(problem)); a request failing either check creates no
\* row, hands off no job and leaves the counter unchanged.
C9_ValidationOrder ==
  [][ \A op \in Creates :
        (Answers(op) /\ ErrorKind(response') # "Rejected")
        => /\ ~response'.valid => ErrorKind(response') = "ValidationError"
           /\ (response'.valid /\ NamesNoProblem(response'))
                => ErrorKind(response') = "NotFound(problem)"
           /\ ErrorKind(response') \in {"ValidationError", "NotFound(problem)"}
           /\ UNCHANGED <<submissions, jobs, counter, started, local>>
    ]_vars

\* C9 witness: a malformed create naming a problem that does not exist was
\* answered with ValidationError
C9_Witness ==
  /\ response.op \in Creates /\ ~response.valid /\ response.arg = AbsentId
  /\ ErrorKind(response) = "ValidationError"
  /\ submissions = << >> /\ jobs = << >> /\ counter = 0

\* the request names an existing submission that belongs to a contest
OnContestSubmission(r) ==
  r.valid /\ r.arg \in DOMAIN submissions /\ submissions[r.arg].contest_id # NULL

\* C10 as stated: rejudge of a contest submission fails with NotFound
\* whatever the requester's role, and changes nothing.
C10_ContestRejudgeNotFound ==
  [][ (response = NoResponse /\ response'.op = "rejudge" /\ OnContestSubmission(response'))
      => /\ ErrorKind(response') = "NotFound"
         /\ UNCHANGED <<submissions, jobs, counter, started, pc, local>>
    ]_vars

\* C10 amended: rejudge of a contest submission never dispatches: a super
\* administrator gets NotFound, any other requester is turned away by
\* super_admin_required; no job, no counter change, the submission unchanged.
C10_ContestRejudgeNeverDispatches ==
  [][ /\ (response = NoResponse /\ response'.op = "rejudge"
           /\ OnContestSubmission(response'))
         => /\ IsSuperAdmin(response'.user) => ErrorKind(response') = "NotFound"
            /\ ~IsSuperAdmin(response'.user) => ErrorKind(response') = "Rejected"
            /\ UNCHANGED <<submissions, jobs, counter, started, pc, local>>
      /\ \A w \in Workers :
           (local'[w].req.op = "rejudge" /\ local[w].req.op # "rejudge")
           => /\ local'[w].submission_id \in DOMAIN submissions
              /\ submissions[local'[w].submission_id].contest_id = NULL
    ]_vars

\* C10 witness: the super administrator asked to rejudge a contest submission
\* and was answered NotFound
C10_Witness ==
  /\ response.op = "rejudge" /\ OnContestSubmission(response)
  /\ IsSuperAdmin(response.user) /\ ErrorKind(response) = "NotFound"

\* C11: a successful rejudge of a standalone submission hands off one job with
\* the submission's id and the problem's limits and test case as they are when
\* the rejudge runs, raises the counter by one and writes no field of the row;
\* a rejudge whose problem no longer exists fails with NotFound(problem) and
\* dispatches nothing.
C11_RejudgeUsesCurrentProblem ==
  [][ /\ \A w \in Workers :
           /\ (pc[w] = "idle" /\ pc'[w] = "judge_delay" /\ local'[w].req.op = "rejudge")
                => /\ local'[w].submission_id \in DOMAIN submissions
                   /\ submissions[local'[w].submission_id].contest_id = NULL
                   /\ problems[submissions[local'[w].submission_id].problem_id].exists
                   /\ local'[w].problem
                        = problems[submissions[local'[w].submission_id].problem_id]
                   /\ submissions' = submissions /\ jobs' = jobs /\ counter' = counter
           /\ (pc[w] = "judge_delay" /\ pc'[w] = "redis_incr" /\ local[w].req.op = "rejudge")
                => /\ jobs' = Append(jobs,
                         [submission_id |-> local[w].submission_id,
                          time_limit |-> local[w].problem.time_limit,
                          memory_limit |-> local[w].problem.memory_limit,
                          test_case_id |-> local[w].problem.test_case_id])
                   /\ submissions' = submissions
      /\ (response'.op = "rejudge" /\ response'.kind = "success" /\ response = NoResponse)
           => /\ counter' = counter + 1
              /\ submissions' = submissions /\ jobs' = jobs
              /\ Queued(response'.arg)
      /\ (Answers("rejudge") /\ IsSuperAdmin(response'.user) /\ response'.valid
            /\ response'.arg \in DOMAIN submissions
            /\ submissions[response'.arg].contest_id = NULL
            /\ ~problems[submissions[response'.arg].problem_id].exists)
           => /\ ErrorKind(response') = "NotFound(problem)"
              /\ UNCHANGED <<submissions, jobs, counter, started, local>>
    ]_vars

\* C11 witness: a rejudge has succeeded after the problem's limits changed: its
\* job carries other limits than the job of the create, the row is as it was
C11_Witness ==
  /\ response.op = "rejudge" /\ response.kind = "success"
  /\ Len(jobs) = 2 /\ jobs[1].submission_id = jobs[2].submission_id
  /\ jobs[2].time_limit = problems[1].time_limit
  /\ jobs[1].time_limit # jobs[2].time_limit
  /\ counter = 2

\* C12: a successful toggle, when no other toggle wrote the row since it read
\* it, inverts the stored shared flag, persists it and returns the new value;
\* inverting twice gives the original value back, so two successive toggles
\* restore shared.
C12_ToggleIsInvolution ==
  [][ /\ \A w \in Workers :
           (/\ pc[w] = "share_save" /\ pc'[w] = "idle"
            /\ submissions[local[w].submission_id].shared = local[w].submission.shared)
           => /\ submissions'[local[w].submission_id].shared
                   = ~submissions[local[w].submission_id].shared
              /\ response'.op = "share" /\ response'.kind = "success"
              /\ response'.arg = local[w].submission_id
              /\ response'.data.shared = submissions'[local[w].submission_id].shared
              /\ Toggle(submissions'[local[w].submission_id].shared)
                   = submissions[local[w].submission_id].shared
      /\ (response = NoResponse /\ response'.op = "share" /\ response'.kind = "success")
           => \E w \in Workers : pc[w] = "share_save" /\ pc'[w] = "idle"
    ]_vars

\* C12 witness: a toggle has just returned shared = false: the second toggle of
\* a row (rows are created with shared = false) has restored the original value
C12_Witness ==
  /\ response.op = "share" /\ response.kind = "success"
  /\ response.arg \in DOMAIN submissions
  /\ ~response.data.shared /\ ~submissions[response.arg].shared

\* C13: every public operation ends in a success or in a structured failure
\* (ValidationError, NotFound, Forbidden, DispatchError): no response is an
\* unhandled fault.
C13_NoUnhandledFault == response.kind # "fault"

\* C14: a detail read the resolver grants fails with NotFound when the
\* submission's problem (ContestProblem for a contest submission, Problem
\* otherwise) is hidden or removed; otherwise it renders the row with
\* can_share true exactly for OWNER_OR_ADMIN, and an info payload that does not
\* parse is returned raw.
C14_DetailNeedsVisibleProblem ==
  [][ (Answers("detail") /\ response'.user \in Users
        /\ GetSubmission(response'.arg, response'.user).status = "ok")
      => LET result == GetSubmission(response'.arg, response'.user)
             row == submissions[response'.arg]
             problem == ProblemOf(row) IN
         /\ ~(problem.exists /\ problem.visible)
              => (response'.kind = "error_page" /\ ErrorKind(response') = "NotFound")
         /\ (problem.exists /\ problem.visible)
              => /\ response'.kind = "render"
                 /\ response'.data.submission = row
                 /\ response'.data.problem = problem
                 /\ response'.data.can_share = (Visibility(result) = "OWNER_OR_ADMIN")
                 /\ row.info = "raw" => response'.data.info = "raw"
         /\ UNCHANGED <<submissions, jobs, counter, started, pc, local>>
    ]_vars

\* C14 witness: the owner asked for the detail of an existing submission whose
\* problem is there but hidden, and was answered NotFound
C14_Witness ==
  /\ response.op = "detail" /\ ErrorKind(response) = "NotFound"
  /\ response.arg \in DOMAIN submissions
  /\ submissions[response.arg].user_id = response.user
  /\ ProblemOf(submissions[response.arg]).exists
  /\ ~ProblemOf(submissions[response.arg]).visible

\* C15: a status read returns result for a submission the requester owns, with
\* accepted_answer_time exactly when result is the accepted sentinel (0); for a
\* submission of another user or an absent id it fails with NotFound, whatever
\* the requester's role and the shared flag; it changes no state.
C15_StatusScopedToOwner ==
  [][ (Answers("status") /\ response'.user \in Users /\ response'.arg # NULL)
      => /\ (response'.arg \in DOMAIN submissions
               /\ submissions[response'.arg].user_id = response'.user)
              => /\ response'.kind = "success"
                 /\ response'.data.result = submissions[response'.arg].result
                 /\ ("accepted_answer_time" \in DOMAIN response'.data)
                      <=> (submissions[response'.arg].result = ACCEPTED)
                 /\ submissions[response'.arg].result = ACCEPTED
                      => response'.data.accepted_answer_time
                           = submissions[response'.arg].accepted_answer_time
         /\ ~(response'.arg \in DOMAIN submissions
               /\ submissions[response'.arg].user_id = response'.user)
              => ErrorKind(response') = "NotFound"
         /\ UNCHANGED <<submissions, problems, contestProblems, contests, counter,
                        jobs, started, changes, clock, rowLimit, pc, local>>
    ]_vars

\* C15 witness: the super administrator asked for the status of another user's
\* shared submission and was answered NotFound
C15_Witness ==
  /\ response.op = "status" /\ ErrorKind(response) = "NotFound"
  /\ IsSuperAdmin(response.user)
  /\ response.arg \in DOMAIN submissions
  /\ submissions[response.arg].shared

\* C16: once a Submission exists no step changes its id, user_id, problem_id,
\* contest_id, code or create_time (a standalone submission stays standalone,
\* a contest submission stays in its contest), and no step deletes one.
C16_IdentityFieldsImmutable ==
  [][ \A sid \in DOMAIN submissions :
        /\ sid \in DOMAIN submissions'
        /\ submissions'[sid].user_id = submissions[sid].user_id
        /\ submissions'[sid].problem_id = submissions[sid].problem_id
        /\ submissions'[sid].contest_id = submissions[sid].contest_id
        /\ submissions'[sid].code = submissions[sid].code
        /\ submissions'[sid].create_time = submissions[sid].create_time
    ]_vars

\* C16 witness: a contest submission has been judged and then toggled, and is
\* still the submitter's row in the same contest
C16_Witness ==
  /\ response.op = "share" /\ response.kind = "success"
  /\ response.arg \in DOMAIN submissions
  /\ submissions[response.arg].contest_id = 1
  /\ submissions[response.arg].user_id = 1
  /\ submissions[response.arg].create_time = 1
  /\ submissions[response.arg].shared
  /\ submissions[response.arg].result # WAITING

\* a create is between its insert and its return on worker w
CreateInFlight(w) ==
  pc[w] \in {"judge_delay", "redis_incr"} /\ local[w].req.op \in Creates

C18_ToggleKeepsVerdict ==
  [][ /\ \A w \in Workers :
           (pc[w] = "share_save" /\ pc'[w] = "idle")
           => /\ submissions'[local[w].submission_id].result
                   = submissions[local[w].submission_id].result
              /\ submissions'[local[w].submission_id].info
                   = submissions[local[w].submission_id].info
              /\ submissions'[local[w].submission_id].accepted_answer_time
                   = submissions[local[w].submission_id].accepted_answer_time
      /\ \A sid \in DOMAIN submissions :
           (sid \in DOMAIN submissions' /\ submissions[sid].result # WAITING)
           => submissions'[sid].result # WAITING
    ]_vars

\* C19: concurrent toggles lose no update: every toggle that returns success
\* has inverted the shared flag as stored when it saved, and returns that
\* value, so N successes flip the initial value N times.
C19_NoLostToggle ==
  [][ \A w \in Workers :
        (pc[w] = "share_save" /\ pc'[w] = "idle")
        => /\ submissions'[local[w].submission_id].shared
                = ~submissions[local[w].submission_id].shared
           /\ response'.kind = "success"
           /\ response'.data.shared = ~submissions[local[w].submission_id].shared
    ]_vars

\* C20: a create or rejudge that reports DispatchError has handed no job to
\* the execution facility; and whenever no dispatch is in flight the number of
\* jobs handed off equals the counter's increase.
C20_DispatchErrorMeansUnqueued ==
  [][ /\ \A w \in Workers :
           (/\ pc[w] \in {"judge_delay", "redis_incr"} /\ pc'[w] = "idle"
            /\ ErrorKind(response') = "DispatchError")
           => /\ pc[w] = "judge_delay"
              /\ jobs' = jobs
      /\ (NoDispatchInFlight /\ NoDispatchInFlight') => Len(jobs') = counter'
    ]_vars

====
